---- MODULE Spec2Model ----
(***************************************************************************)
(* Model of the `depth` crate: the recursive registry fetch that fills the *)
(* visited cache and the dependency graph (package.rs), the graph and its  *)
(* recursive printer (dependency_graph.rs), and the entry points (lib.rs,  *)
(* main.rs).  The program is single threaded; the recursion of             *)
(* fetch_package_info is modelled by an explicit call stack, one action    *)
(* per segment of the function body between two registry calls or calls.   *)
(***************************************************************************)
EXTENDS Integers, Sequences, FiniteSets, TLC

(* ------------------------------------------------------------------ *)
(* Bounds of the model                                                  *)
(* ------------------------------------------------------------------ *)

\* largest depth budget handed to visualize_dependency_tree
MaxDepth == 3

\* largest number of dependencies the registry declares for one crate
MaxDeps == 2

\* largest number of dependency rows of the requested kind that the registry
\* declares over all the crates of one run
MaxRows == 4

\* crate names known to the model
Names == {"demo", "left", "right"}

\* the crate named on the command line
RootNames == {"demo"}

\* version requirements as rendered by `dep.req.to_string()`
Reqs == {"^1"}

(* ------------------------------------------------------------------ *)
(* Registry (crates_io_api::SyncClient), the external collaborator      *)
(* ------------------------------------------------------------------ *)

\* `crate_info.homepage : Option<String>` as the registry reports it
HomepageOf(name) ==
    IF name = "demo" THEN [some |-> FALSE, v |-> ""]
    ELSE IF name = "left" THEN [some |-> TRUE, v |-> "https://left"]
    ELSE [some |-> TRUE, v |-> "https://right"]

\* one row of `client.crate_dependencies(..)`
DepEntries == [crate_id : Names, req : Reqs, optional : BOOLEAN]

\* the dependency lists the registry may answer with
DeclaredLists == UNION {[1..n -> DepEntries] : n \in 0..MaxDeps}

\* the rows and lists tried on list_dependencies on its own: two renderings
\* of a requirement, so that rows of one crate may differ in it
ListedReqs == {"^1", "*"}
ListedEntries == [crate_id : Names, req : ListedReqs, optional : BOOLEAN]
ListedLists == UNION {[1..n -> ListedEntries] : n \in 0..MaxDeps}

\* the errors a registry call may end with
RegistryErrors == {"NotFound", "Http"}

(* ------------------------------------------------------------------ *)
(* package.rs                                                           *)
(* ------------------------------------------------------------------ *)

\* `name.starts_with("std")`: no crate name of the model has that prefix
StartsWithStd(name) == name \in {}

\* Package::new
NewPackage(name, url, dependencies, internal) ==
    [name |-> name, url |-> url, dependencies |-> dependencies, internal |-> internal]

NoPackage == NewPackage("", "", <<>>, FALSE)

\* `homepage.unwrap_or("".to_string())`
UnwrapOrEmpty(h) == IF h.some THEN h.v ELSE ""

KeepWhenOptionalRequested(dep, optional) ==
    (~dep.optional /\ ~optional) \/ optional

\* the two branches of the loop body of list_dependencies
KeepDependency(dep, optional) ==
    IF ~dep.optional /\ ~optional THEN TRUE
    ELSE IF optional /\ dep.optional THEN TRUE
    ELSE FALSE

\* the loop of list_dependencies over rows k..Len(declared), pushing onto acc
RECURSIVE ListLoop(_, _, _, _)
ListLoop(declared, optional, k, acc) ==
    IF k > Len(declared) THEN acc
    ELSE ListLoop(declared, optional, k + 1,
                  IF KeepDependency(declared[k], optional)
                  THEN Append(acc, <<declared[k].crate_id, declared[k].req>>)
                  ELSE acc)

\* list_dependencies, given the rows the registry answered with
ListDependencies(declared, optional) == ListLoop(declared, optional, 1, <<>>)

(* ------------------------------------------------------------------ *)
(* dependency_graph.rs: the graph                                       *)
(* ------------------------------------------------------------------ *)

\* DependencyGraph::new; node indices are 1..Len(nodes), 0 is NodeIndex::end()
NewGraph == [nodes |-> <<>>, edges |-> <<>>]

NodeEnd == 0

HasNodeNever(g, label) == FALSE

\* `self.graph.node_indices().any(|i| self.graph[i] == label)`
HasNode(g, label) == \E i \in 1..Len(g.nodes) : g.nodes[i] = label

\* `self.graph.node_indices().find(..).unwrap_or_else(NodeIndex::end)`
FindNode(g, label) ==
    IF HasNode(g, label)
    THEN CHOOSE i \in 1..Len(g.nodes) :
            /\ g.nodes[i] = label
            /\ \A j \in 1..(i - 1) : g.nodes[j] # label
    ELSE NodeEnd

\* petgraph add_node: appends, the new index is the last
AddNode(g, label) == [g EXCEPT !.nodes = Append(@, label)]

\* add_dependency_edge
AddDependencyEdge(g, source, target) ==
    [g EXCEPT !.edges = Append(@, <<source, target>>)]

\* the loop of add_package_to_graph over the package's dependency tuples
RECURSIVE AddDependencyNodes(_, _, _, _)
AddDependencyNodes(g, node_index, deps, k) ==
    IF k > Len(deps) THEN g
    ELSE IF ~HasNode(g, deps[k])
         THEN AddDependencyNodes(
                  AddDependencyEdge(AddNode(g, deps[k]), node_index, Len(g.nodes) + 1),
                  node_index, deps, k + 1)
         ELSE AddDependencyNodes(g, node_index, deps, k + 1)

\* add_package_to_graph: the graph after the call and the index it returns
AddPackageToGraph(g, package) ==
    LET node_index == Len(g.nodes) + 1
        g1 == AddNode(g, <<package.name, package.url>>)
    IN  [graph |-> AddDependencyNodes(g1, node_index, package.dependencies, 1),
         index |-> node_index]

(* ------------------------------------------------------------------ *)
(* dependency_graph.rs: the printer                                     *)
(* ------------------------------------------------------------------ *)

\* the value of an expression, evaluated once before it is used
Once(S) == CHOOSE r \in S : TRUE

\* petgraph `neighbors(n)`: targets of n's outgoing edges, the edge added
\* last first; k runs over the edges in the order they were added
RECURSIVE NeighborsFrom(_, _, _)
NeighborsFrom(g, n, k) ==
    IF k > Len(g.edges) THEN <<>>
    ELSE IF g.edges[k][1] = n
         THEN Append(NeighborsFrom(g, n, k + 1), g.edges[k][2])
         ELSE NeighborsFrom(g, n, k + 1)

Neighbors(g, n) == NeighborsFrom(g, n, 1)

\* the successors Dfs::next pushes: those not discovered yet, in order
RECURSIVE Undiscovered(_, _, _)
Undiscovered(succs, discovered, k) ==
    IF k > Len(succs) THEN <<>>
    ELSE IF succs[k] \in discovered
         THEN Undiscovered(succs, discovered, k + 1)
         ELSE <<succs[k]>> \o Undiscovered(succs, discovered, k + 1)

\* petgraph Dfs: repeated `dfs.next(&graph)` until None; the top of the
\* stack is its last element; the result lists the nodes in visiting order
RECURSIVE DfsNext(_, _, _, _)
DfsNext(g, stack, discovered, order) ==
    IF stack = <<>> THEN order
    ELSE LET node == stack[Len(stack)]
             rest == SubSeq(stack, 1, Len(stack) - 1)
         IN  IF node \in discovered
             THEN Once({DfsNext(g, s, discovered, order) : s \in {rest}})
             ELSE Once({DfsNext(g, s, d, o) :
                          s \in {rest \o Undiscovered(Neighbors(g, node),
                                                      discovered \cup {node}, 1)},
                          d \in {discovered \cup {node}},
                          o \in {Append(order, node)}})

\* `Dfs::new(&self.graph, node_index)` drained
DfsOrder(g, start) == DfsNext(g, <<start>>, {}, <<>>)

\* the line println! writes: indent = depth * 3, colour 32 (even) or 37 (odd)
TreeLine(depth, name, url) ==
    [kind |-> "tree", indent |-> depth * 3,
     color |-> IF depth % 2 = 0 THEN 32 ELSE 37,
     name |-> name, url |-> url]

\* the header line of visualize_dependency_tree
HeaderLine(name) ==
    [kind |-> "header", indent |-> 0, color |-> 0, name |-> name, url |-> ""]

\* the state of one top-level print: the two HashSets and the lines written,
\* with the nodes in the order `visited_nodes.insert` accepted them (marked)
\* and in the order their line was written and their walk begun (expanded)
NewPrintState ==
    [visited_nodes |-> {}, printed_packages |-> {}, out |-> <<>>,
     marked |-> <<>>, expanded |-> <<>>]

DepthBelowOrAtMax(depth, max_depth) == depth <= max_depth

\* `if depth < max_depth`
DepthBelowMax(depth, max_depth) == depth < max_depth

MayPrintOnce(name, printed_packages, max_depth) == name \notin printed_packages

\* `printed_packages.insert(..) || max_depth > 2`
MayPrint(name, printed_packages, max_depth) ==
    name \notin printed_packages \/ max_depth > 2

BranchEndsWhenMissing(node_index, visited_nodes) == node_index = NodeEnd

\* the negation of `node_index != NodeIndex::end() && visited_nodes.insert(..)`
BranchEnds(node_index, visited_nodes) ==
    node_index = NodeEnd \/ node_index \in visited_nodes

RECURSIVE PrintDependenciesRecursive(_, _, _, _, _, _)
RECURSIVE PrintNeighbors(_, _, _, _, _, _)

\* print_dependencies_recursive for the package (name, url)
PrintDependenciesRecursive(g, name, url, depth, max_depth, st) ==
    IF ~DepthBelowMax(depth, max_depth) THEN st
    ELSE LET node_index == FindNode(g, <<name, url>>)
         IN  IF BranchEnds(node_index, st.visited_nodes)
             THEN st
             ELSE LET st1 == [st EXCEPT !.visited_nodes = @ \cup {node_index},
                                         !.printed_packages = @ \cup {name},
                                         !.marked = Append(@, node_index)]
                  IN  IF ~MayPrint(name, st.printed_packages, max_depth)
                      THEN st1
                      ELSE Once({PrintNeighbors(g, order, 1, depth, max_depth, st2) :
                                   order \in {DfsOrder(g, node_index)},
                                   st2 \in {[st1 EXCEPT
                                               !.out = Append(@, TreeLine(depth, name, url)),
                                               !.expanded = Append(@, node_index)]}})

\* the `while let Some(neighbor_index) = dfs.next(..)` loop
PrintNeighbors(g, order, k, depth, max_depth, st) ==
    IF k > Len(order) THEN st
    ELSE Once({PrintNeighbors(g, order, k + 1, depth, max_depth, st1) :
                 st1 \in {PrintDependenciesRecursive(g, g.nodes[order[k]][1],
                              g.nodes[order[k]][2], depth + 1, max_depth, st)}})

\* print_dependencies_at_level: fresh sets, then the recursion
PrintDependenciesAtLevel(g, package, depth, max_depth) ==
    PrintDependenciesRecursive(g, package.name, package.url, depth, max_depth,
                               NewPrintState)

(* ------------------------------------------------------------------ *)
(* State                                                                *)
(* ------------------------------------------------------------------ *)

VARIABLES
    args,      \* the arguments of visualize_dependency_tree
    pc,        \* where the entry point stands: start, fetch, main, done
    visited,   \* visited_packages : HashMap<String, Package>
    graph,     \* the DependencyGraph
    stack,     \* the active calls of fetch_package_info, innermost last
    ret,       \* the value the call that just returned handed to its caller
    calls,     \* how often each registry endpoint was asked, per crate name
    home,      \* per fetched name: the node made for it and its depth budget
    stdout,    \* the lines written to standard output
    stderr,    \* the lines written to standard error
    result,    \* what visualize_dependency_tree returned
    listed     \* one call of list_dependencies on its own: rows, mode, result

vars == <<args, pc, visited, graph, stack, ret, calls, home, stdout, stderr, result,
          listed>>

\* the message of the `else` branch of visualize_dependency_tree
NotFoundMessage == "Package not found or does not have a Cargo.toml file"

\* no call of list_dependencies on its own is under way
NoListing == [pc |-> "idle", declared |-> <<>>, optional |-> FALSE,
              kind |-> "none", dependencies |-> <<>>]

NoRet == [kind |-> "none", package |-> NoPackage, err |-> ""]
RetSome(package) == [kind |-> "Some", package |-> package, err |-> ""]
RetErr(e) == [kind |-> "Err", package |-> NoPackage, err |-> e]

\* a fresh activation of fetch_package_info(package_name, .., depth, ..)
Frame(package_name, depth) ==
    [package_name |-> package_name, depth |-> depth, pc |-> "enter",
     homepage |-> "", package |-> NoPackage, node_index |-> NodeEnd, i |-> 1]

Top == stack[Len(stack)]
Pop == SubSeq(stack, 1, Len(stack) - 1)
SetTop(f) == [stack EXCEPT ![Len(stack)] = f]

NeverCached(vis, name) == FALSE

\* `visited_packages.get(&package_name.0)` is Some
IsCached(vis, name) == name \in DOMAIN vis

CacheInsertDropped(vis, name, package) == vis

\* `visited_packages.insert(name, package)`
CacheInsert(vis, name, package) ==
    [n \in DOMAIN vis \cup {name} |-> IF n = name THEN package ELSE vis[n]]

ShouldExpandAtOne(depth) == depth > 0

\* `if depth > 1`
ShouldExpand(depth) == depth > 1

PropagatesNever(r) == FALSE

\* the `?` operator: an Err leaves the enclosing function at once
Propagates(r) == r.kind = "Err"

Bump(f, name) == [f EXCEPT ![name] = @ + 1]

\* the dependency tuples held by the packages fetched so far
RECURSIVE RowsOf(_, _)
RowsOf(vis, names) ==
    IF names = {} THEN 0
    ELSE LET n == CHOOSE x \in names : TRUE
         IN  Len(vis[n].dependencies) + RowsOf(vis, names \ {n})

RowsKept(vis) == RowsOf(vis, DOMAIN vis)

(* ------------------------------------------------------------------ *)
(* Actions                                                              *)
(* ------------------------------------------------------------------ *)

Init ==
    /\ args \in [package_name : RootNames, depth : 0..MaxDepth, optional : BOOLEAN]
    /\ pc = "start"
    /\ visited = <<>>
    /\ graph = NewGraph
    /\ stack = <<>>
    /\ ret = NoRet
    /\ calls = [get_crate |-> [n \in Names |-> 0],
                crate_dependencies |-> [n \in Names |-> 0]]
    /\ home = <<>>
    /\ stdout = <<>>
    /\ stderr = <<>>
    /\ result = "none"
    /\ listed = NoListing

\* fetch_dependency_tree: an empty cache and the first call
FetchDependencyTree ==
    /\ pc = "start"
    /\ pc' = "fetch"
    /\ visited' = <<>>
    /\ stack' = <<Frame(<<args.package_name, "">>, args.depth)>>
    /\ UNCHANGED <<args, graph, ret, calls, home, stdout, stderr, result, listed>>

\* fetch_package_info, the cache hit: return the cached Package
CacheHit ==
    /\ pc = "fetch" /\ stack # <<>> /\ ret.kind = "none"
    /\ Top.pc = "enter"
    /\ IsCached(visited, Top.package_name[1])
    /\ ret' = RetSome(visited[Top.package_name[1]])
    /\ stack' = Pop
    /\ UNCHANGED <<args, pc, visited, graph, calls, home, stdout, stderr, result, listed>>

\* fetch_package_info, `client.get_crate(&package_name.0)?` and the homepage
GetCrate ==
    /\ pc = "fetch" /\ stack # <<>> /\ ret.kind = "none"
    /\ Top.pc = "enter"
    /\ ~IsCached(visited, Top.package_name[1])
    /\ calls' = [calls EXCEPT !.get_crate = Bump(@, Top.package_name[1])]
    /\ \E outcome \in {"Ok"} \cup RegistryErrors :
          IF outcome = "Ok"
          THEN /\ stack' = SetTop([Top EXCEPT
                            !.pc = "list",
                            !.homepage = UnwrapOrEmpty(HomepageOf(Top.package_name[1]))])
               /\ ret' = ret
          ELSE /\ stack' = Pop
               /\ ret' = RetErr(outcome)
    /\ UNCHANGED <<args, pc, visited, graph, home, stdout, stderr, result, listed>>

\* fetch_package_info, from `list_dependencies(..)?` to the package's node:
\* the dependency list, the Package, the cache insert, add_package_to_graph
ListAndInsert ==
    /\ pc = "fetch" /\ stack # <<>> /\ ret.kind = "none"
    /\ Top.pc = "list"
    /\ calls' = [calls EXCEPT !.crate_dependencies = Bump(@, Top.package_name[1])]
    /\ \/ \E e \in RegistryErrors :
             /\ stack' = Pop
             /\ ret' = RetErr(e)
             /\ UNCHANGED <<visited, graph, home>>
       \/ \E declared \in DeclaredLists :
             LET name == Top.package_name[1]
                 dependencies == ListDependencies(declared, args.optional)
                 package == NewPackage(name, Top.homepage, dependencies,
                                       StartsWithStd(name))
                 added == AddPackageToGraph(graph, package)
             IN  /\ RowsKept(visited) + Len(dependencies) <= MaxRows
                 /\ visited' = CacheInsert(visited, name, package)
                 /\ graph' = added.graph
                 /\ home' = [n \in DOMAIN home \cup {name} |->
                               IF n = name
                               THEN [node |-> added.index, depth |-> Top.depth]
                               ELSE home[n]]
                 /\ stack' = SetTop([Top EXCEPT !.pc = "loop",
                                                !.package = package,
                                                !.node_index = added.index,
                                                !.i = 1])
                 /\ ret' = ret
    /\ UNCHANGED <<args, pc, stdout, stderr, result, listed>>

\* fetch_package_info, the loop: the recursive call for the next dependency
Recurse ==
    /\ pc = "fetch" /\ stack # <<>> /\ ret.kind = "none"
    /\ Top.pc = "loop"
    /\ ShouldExpand(Top.depth)
    /\ Top.i <= Len(Top.package.dependencies)
    /\ stack' = Append(stack, Frame(Top.package.dependencies[Top.i], Top.depth - 1))
    /\ UNCHANGED <<args, pc, visited, graph, ret, calls, home, stdout, stderr, result, listed>>

\* fetch_package_info, the loop: the recursive call failed and `?` returns
ChildError ==
    /\ pc = "fetch" /\ stack # <<>>
    /\ Top.pc = "loop"
    /\ ret.kind # "none"
    /\ Propagates(ret)
    /\ stack' = Pop
    /\ UNCHANGED <<args, pc, visited, graph, ret, calls, home, stdout, stderr, result, listed>>

\* fetch_package_info, the loop: the recursive call returned Ok; a Some child
\* is added to the graph again and linked, a None child is skipped
ChildReturn ==
    /\ pc = "fetch" /\ stack # <<>>
    /\ Top.pc = "loop"
    /\ ret.kind # "none"
    /\ ~Propagates(ret)
    /\ IF ret.kind = "Some"
       THEN LET added == AddPackageToGraph(graph, ret.package)
            IN  graph' = AddDependencyEdge(added.graph, Top.node_index, added.index)
       ELSE graph' = graph
    /\ stack' = SetTop([Top EXCEPT !.i = @ + 1])
    /\ ret' = NoRet
    /\ UNCHANGED <<args, pc, visited, calls, home, stdout, stderr, result, listed>>

\* fetch_package_info, the end: `Ok(Some(package))`
Finish ==
    /\ pc = "fetch" /\ stack # <<>> /\ ret.kind = "none"
    /\ Top.pc = "loop"
    /\ ~ShouldExpand(Top.depth) \/ Top.i > Len(Top.package.dependencies)
    /\ ret' = RetSome(Top.package)
    /\ stack' = Pop
    /\ UNCHANGED <<args, pc, visited, graph, calls, home, stdout, stderr, result, listed>>

\* visualize_dependency_tree after fetch_dependency_tree has returned
Visualize ==
    /\ pc = "fetch" /\ stack = <<>> /\ ret.kind # "none"
    /\ pc' = "main"
    /\ IF Propagates(ret)
       THEN /\ result' = ret.err
            /\ UNCHANGED <<stdout, stderr>>
       ELSE IF ret.kind = "Some"
       THEN /\ stdout' = <<HeaderLine(args.package_name)>> \o
                  PrintDependenciesAtLevel(graph, ret.package, 0, args.depth).out
            /\ result' = "Ok"
            /\ UNCHANGED stderr
       ELSE /\ stderr' = Append(stderr, NotFoundMessage)
            /\ result' = "Ok"
            /\ UNCHANGED stdout
    /\ UNCHANGED <<args, visited, graph, stack, ret, calls, home, listed>>

\* main: `if let Err(err) = visualize_dependency_tree(..) { eprintln!(..) }`
MainReport ==
    /\ pc = "main"
    /\ pc' = "done"
    /\ stderr' = IF result = "Ok" THEN stderr ELSE Append(stderr, "Error: " \o result)
    /\ UNCHANGED <<args, visited, graph, stack, ret, calls, home, stdout, result, listed>>

Next ==
    \/ FetchDependencyTree
    \/ CacheHit
    \/ GetCrate
    \/ ListAndInsert
    \/ Recurse
    \/ ChildError
    \/ ChildReturn
    \/ Finish
    \/ Visualize
    \/ MainReport

Spec == Init /\ [][Next]_vars

\* the program is one thread that runs until main returns
FairSpec == Spec /\ WF_vars(Next)

Done == pc = "done"

(* ------------------------------------------------------------------ *)
(* list_dependencies on its own                                         *)
(* ------------------------------------------------------------------ *)

InitDeps ==
    /\ args = [package_name |-> "demo", depth |-> 0, optional |-> FALSE]
    /\ pc = "start"
    /\ visited = <<>>
    /\ graph = NewGraph
    /\ stack = <<>>
    /\ ret = NoRet
    /\ calls = [get_crate |-> [n \in Names |-> 0],
                crate_dependencies |-> [n \in Names |-> 0]]
    /\ home = <<>>
    /\ stdout = <<>>
    /\ stderr = <<>>
    /\ result = "none"
    /\ listed \in [pc : {"call"}, declared : ListedLists, optional : BOOLEAN,
                   kind : {"none"}, dependencies : {<<>>}]

\* list_dependencies(client, crate_info, optional): the registry answers with
\* the rows `declared`, or fails and `?` returns the error
ListDependenciesCall ==
    /\ listed.pc = "call"
    /\ \E outcome \in {"Ok"} \cup RegistryErrors :
          listed' = [listed EXCEPT
                        !.pc = "returned",
                        !.kind = IF outcome = "Ok" THEN "Ok" ELSE "Err",
                        !.dependencies =
                            IF outcome = "Ok"
                            THEN ListDependencies(listed.declared, listed.optional)
                            ELSE <<>>]
    /\ UNCHANGED <<args, pc, visited, graph, stack, ret, calls, home, stdout, stderr,
                   result>>

NextDeps == ListDependenciesCall

SpecDeps == InitDeps /\ [][NextDeps]_vars

(* ------------------------------------------------------------------ *)
(* Helpers of the properties                                            *)
(* ------------------------------------------------------------------ *)

Range(seq) == {seq[i] : i \in 1..Len(seq)}

\* the crate names a package depends on
DepNames(package) == {d[1] : d \in Range(package.dependencies)}

\* fetch_dependency_tree has returned Ok(Some(..))
FetchSucceeded == pc \in {"main", "done"} /\ ret.kind = "Some"

\* the crate names the registry was asked about
Queried == {n \in Names : calls.get_crate[n] > 0}

\* the crate names at most k dependency hops from the root
RECURSIVE WithinHops(_)
WithinHops(k) ==
    IF k <= 0 THEN {args.package_name}
    ELSE LET near == WithinHops(k - 1)
         IN  near \cup UNION {DepNames(visited[p]) : p \in near \cap DOMAIN visited}

\* the tree lines of standard output
TreeLines == SelectSeq(stdout, LAMBDA l : l.kind = "tree")

\* the innermost call stands at its first statement with a cached name
AtCacheHit ==
    /\ pc = "fetch" /\ stack # <<>> /\ ret.kind = "none"
    /\ Top.pc = "enter"
    /\ Top.package_name[1] \in DOMAIN visited

(* ------------------------------------------------------------------ *)
(* C1                                                                   *)
(* ------------------------------------------------------------------ *)

OncePerName ==
    \A n \in Names : calls.get_crate[n] <= 1 /\ calls.crate_dependencies[n] <= 1

CacheHitStep ==
    AtCacheHit =>
        /\ ret' = RetSome(visited[Top.package_name[1]])
        /\ stack' = Pop
        /\ visited' = visited
        /\ graph' = graph
        /\ calls' = calls

\* C1: within one run the registry is asked at most once per crate name, and
\* a call of fetch_package_info for a cached name returns the cached Package
\* in one step that pushes no call and leaves cache, graph and registry alone
C1_OneRegistryCallPerName == [](OncePerName) /\ [][CacheHitStep]_vars

\* a diamond's second parent got the child from the cache: the child was
\* fetched under another call, with another depth budget, and asked once
C1_Witness ==
    /\ pc = "fetch" /\ stack # <<>> /\ ret.kind = "Some"
    /\ Top.pc = "loop"
    /\ home[ret.package.name].depth # Top.depth - 1
    /\ home[ret.package.name].node > Top.node_index + 1
    /\ ret.package.name # Top.package_name[1]
    /\ calls.get_crate[ret.package.name] = 1

(* ------------------------------------------------------------------ *)
(* C2                                                                   *)
(* ------------------------------------------------------------------ *)

\* every call that is past its cache insert is in the cache, so every call
\* with a callee above it on the stack is
InsertedBeforeRecursing ==
    \A k \in 1..Len(stack) :
        stack[k].pc = "loop" =>
            /\ stack[k].package_name[1] \in DOMAIN visited
            /\ visited[stack[k].package_name[1]] = stack[k].package

FetchedExactlyOnce ==
    /\ OncePerName
    /\ \A n \in DOMAIN visited :
          calls.get_crate[n] = 1 /\ calls.crate_dependencies[n] = 1

\* C2: for every dependency relation, cyclic ones included, and every depth
\* budget the run ends; each fetched package, those on a cycle included, is
\* asked for exactly once, and is in the cache before any call for one of
\* its dependencies is made
C2_CyclesTerminate == <>Done /\ [](FetchedExactlyOnce /\ InsertedBeforeRecursing)

\* a finished, successful run over the cycle demo -> left -> demo
C2_Witness ==
    /\ Done /\ result = "Ok"
    /\ {"demo", "left"} \subseteq DOMAIN visited
    /\ "left" \in DepNames(visited["demo"])
    /\ "demo" \in DepNames(visited["left"])
    /\ home["left"].depth > 1

(* ------------------------------------------------------------------ *)
(* C3                                                                   *)
(* ------------------------------------------------------------------ *)

\* a call below another on the stack was made from the loop of a caller with
\* depth > 1, for the caller's current dependency, with depth - 1
CalleeDepth ==
    \A k \in 1..(Len(stack) - 1) :
        /\ stack[k].pc = "loop"
        /\ stack[k].depth > 1
        /\ stack[k + 1].depth = stack[k].depth - 1
        /\ stack[k].i \in 1..Len(stack[k].package.dependencies)
        /\ stack[k + 1].package_name = stack[k].package.dependencies[stack[k].i]

\* a call with depth <= 1 never advances its loop; no depth leaves usize
LeafCallsStay ==
    \A k \in 1..Len(stack) :
        /\ stack[k].depth >= 0
        /\ stack[k].pc = "loop" => calls.get_crate[stack[k].package_name[1]] = 1
        /\ stack[k].depth <= 1 => stack[k].i = 1 /\ k = Len(stack)

\* a package fetched with depth > 1 had a call made for each dependency
ExpandedCallsEach ==
    FetchSucceeded =>
        \A n \in DOMAIN visited :
            home[n].depth > 1 => DepNames(visited[n]) \subseteq DOMAIN visited

HopBound == args.depth >= 1 => Queried \subseteq WithinHops(args.depth - 1)

\* C3: a call with depth <= 1 fetches its package and makes no recursive
\* call, a call with depth > 1 recurses into each dependency with depth - 1,
\* a run with depth D >= 1 asks the registry only about packages at most
\* D - 1 hops from the root, and no depth falls below 0
C3_DepthLimited == CalleeDepth /\ LeafCallsStay /\ ExpandedCallsEach /\ HopBound

\* a call reached with depth 1, under a caller with depth 2, has fetched its
\* package, which has dependencies, and none of them was asked for
C3_Witness ==
    /\ pc = "fetch" /\ Len(stack) >= 2 /\ ret.kind = "none"
    /\ Top.pc = "loop" /\ Top.depth = 1
    /\ Len(Top.package.dependencies) > 0
    /\ DepNames(Top.package) \cap Queried = {}

(* ------------------------------------------------------------------ *)
(* C4                                                                   *)
(* ------------------------------------------------------------------ *)

\* once a registry call has failed: every step is the return of the
\* innermost call with that error or the entry point's reporting, and it
\* asks the registry nothing, fetches nothing and prints nothing
FailureStep ==
    ret.kind = "Err" =>
        /\ ret' = ret
        /\ calls' = calls /\ visited' = visited /\ graph' = graph
        /\ stdout' = <<>>
        /\ stack # <<>> => stack' = Pop
        /\ stack = <<>> => pc' \in {"main", "done"} /\ result' = ret.err

FailureSilent ==
    ret.kind = "Err" =>
        /\ stdout = <<>>
        /\ Done => result = ret.err /\ stderr = <<"Error: " \o ret.err>>

\* C4: a failing registry call leaves every enclosing call at once, nothing
\* more is fetched, visualize_dependency_tree returns the error and standard
\* output stays empty
C4_FailureAborts == [](FailureSilent) /\ [][FailureStep]_vars

\* a run that ended with the failure of a dependency's registry call, two
\* calls deep
C4_Witness ==
    /\ Done /\ ret.kind = "Err"
    /\ {"demo", "left"} \subseteq DOMAIN visited
    /\ home["left"].depth = 2
    /\ calls.get_crate["right"] = 1 /\ "right" \notin DOMAIN visited
    /\ stdout = <<>>

(* ------------------------------------------------------------------ *)
(* C5                                                                   *)
(* ------------------------------------------------------------------ *)

\* the (name, requirement) tuples of the rows whose flag is `mode`, in order
RowsWithFlag(declared, mode) ==
    LET kept == SelectSeq(declared, LAMBDA d : d.optional = mode)
    IN  [i \in 1..Len(kept) |-> <<kept[i].crate_id, kept[i].req>>]

\* the rows' (name, requirement) tuples
DeclaredTuples(declared) == {<<d.crate_id, d.req>> : d \in Range(declared)}

\* some (name, requirement) is declared once optional and once not
DeclaredUnderBothFlags(declared) ==
    \E a, b \in Range(declared) :
        /\ a.crate_id = b.crate_id /\ a.req = b.req
        /\ a.optional /\ ~b.optional

ListedOk == listed.pc = "returned" /\ listed.kind = "Ok"

\* the result of the call, and the result the other mode gives on the rows
SameMode == listed.dependencies
OtherMode == ListDependencies(listed.declared, ~listed.optional)

KeepsMatchingRows ==
    /\ SameMode = RowsWithFlag(listed.declared, listed.optional)
    /\ OtherMode = RowsWithFlag(listed.declared, ~listed.optional)

ResultsCoverDeclared ==
    Range(SameMode) \cup Range(OtherMode) = DeclaredTuples(listed.declared)

ResultsDisjoint == Range(SameMode) \cap Range(OtherMode) = {}

\* C5 as stated: a row is kept iff its flag equals the mode, in declaration
\* order, and the results of the two modes are disjoint and cover the rows
C5_AsStated ==
    ListedOk => KeepsMatchingRows /\ ResultsCoverDeclared /\ ResultsDisjoint

\* C5 amended: a row is kept iff its flag equals the mode, in declaration
\* order; the results of the two modes cover the rows; they are disjoint
\* unless some (name, requirement) is declared under both flags, and then
\* that tuple is in both
C5_FilterByFlag ==
    ListedOk =>
        /\ KeepsMatchingRows
        /\ ResultsCoverDeclared
        /\ Len(SameMode) + Len(OtherMode) = Len(listed.declared)
        /\ ResultsDisjoint <=> ~DeclaredUnderBothFlags(listed.declared)

\* a call returned for rows of both flags, the optional one first, with
\* optional = true: one row kept, one left to the other mode
C5_Witness ==
    /\ ListedOk /\ listed.optional
    /\ Len(listed.declared) = 2
    /\ listed.declared[1].optional /\ ~listed.declared[2].optional
    /\ listed.declared[1].crate_id # listed.declared[2].crate_id
    /\ listed.dependencies = <<<<listed.declared[1].crate_id, listed.declared[1].req>>>>

(* ------------------------------------------------------------------ *)
(* C6                                                                   *)
(* ------------------------------------------------------------------ *)

\* C6 as stated: no two nodes of the graph carry the same (name, url) pair
C6_NoDuplicateNodes ==
    \A i, j \in 1..Len(graph.nodes) : graph.nodes[i] = graph.nodes[j] => i = j

(* ------------------------------------------------------------------ *)
(* C7                                                                   *)
(* ------------------------------------------------------------------ *)

\* C7 as stated: after a successful fetch every package fetched with
\* depth > 1 has, for each dependency, an edge from its node to the node
\* that was made for the dependency when it was fetched, the one that holds
\* the dependency's own edges
C7_EdgeToChildNode ==
    FetchSucceeded =>
        \A p \in DOMAIN visited :
            home[p].depth > 1 =>
                \A d \in DepNames(visited[p]) :
                    <<home[p].node, home[d].node>> \in Range(graph.edges)

(* ------------------------------------------------------------------ *)
(* C8                                                                   *)
(* ------------------------------------------------------------------ *)

\* print_dependencies_at_level on the fetched graph prints nothing when
\* called with depth >= max_depth
SilentAtMaxDepth ==
    FetchSucceeded =>
        \A max_depth \in 0..MaxDepth : \A depth \in max_depth..(MaxDepth + 1) :
            PrintDependenciesAtLevel(graph, ret.package, depth, max_depth).out = <<>>

LinesBelowMaxDepth ==
    \A k \in 1..Len(TreeLines) : TreeLines[k].indent < 3 * args.depth

RootLineOnly ==
    (pc \in {"main", "done"} /\ result = "Ok" /\ args.depth = 1) =>
        stdout = <<HeaderLine(args.package_name),
                   TreeLine(0, args.package_name, visited[args.package_name].url)>>

IsDiamond ==
    /\ DOMAIN visited = {"demo", "left", "right"}
    /\ visited["demo"].dependencies = <<<<"left", "^1">>, <<"right", "^1">>>>
    /\ visited["left"].dependencies = <<<<"right", "^1">>>>
    /\ visited["right"].dependencies = <<>>

DiamondLines ==
    <<TreeLine(0, "demo", ""),
      TreeLine(1, "left", "^1"),
      TreeLine(1, "right", "^1"),
      TreeLine(1, "left", "https://left"),
      TreeLine(2, "right", "https://right")>>

RootNotFound ==
    /\ calls.get_crate[args.package_name] = 1
    /\ calls.crate_dependencies[args.package_name] = 0
    /\ ret = RetErr("NotFound")

\* C10 as stated: when the requested package does not exist the fetch
\* returns Ok(None) and the run reports the not-found message, not an error
C10_NotFoundIsNone ==
    (Done /\ RootNotFound) =>
        /\ result = "Ok"
        /\ stderr = <<NotFoundMessage>>

(* ------------------------------------------------------------------ *)
(* C11                                                                  *)
(* ------------------------------------------------------------------ *)

NoRepeats(seq) == \A i, j \in 1..Len(seq) : seq[i] = seq[j] => i = j

\* the names on the lines, in order
LineNames(lines) == [k \in 1..Len(lines) |-> lines[k].name]

\* a package that has no node in any graph of the model
AbsentPackage == NewPackage("absent", "", <<>>, FALSE)

\* one top-level print of the fetched root on the fetched graph
PrintRun(max_depth) == PrintDependenciesAtLevel(graph, ret.package, 0, max_depth)

\* each node is accepted by visited_nodes.insert at most once and begins
\* its walk at most once; each line is the line of one such node
MarkedOnce(r) ==
    /\ NoRepeats(r.marked) /\ NoRepeats(r.expanded)
    /\ Range(r.marked) = r.visited_nodes
    /\ Range(r.expanded) \subseteq Range(r.marked)
    /\ Len(r.out) = Len(r.expanded)
    /\ \A k \in 1..Len(r.out) :
          <<r.out[k].name, r.out[k].url>> = graph.nodes[r.expanded[k]]

\* printing a package whose node is visited already, or that has no node,
\* changes nothing: no mark, no line
EndedBranchesSilent(r, max_depth) ==
    /\ \A n \in r.visited_nodes :
          PrintDependenciesRecursive(graph, graph.nodes[n][1], graph.nodes[n][2],
                                     0, max_depth, r) = r
    /\ PrintDependenciesRecursive(graph, AbsentPackage.name, AbsentPackage.url,
                                  0, max_depth, r) = r
    /\ PrintDependenciesAtLevel(graph, AbsentPackage, 0, max_depth) = NewPrintState

NamesOnceWhenShallow(r, max_depth) ==
    max_depth <= 2 => NoRepeats(LineNames(r.out))

\* the tree the run wrote is the print of the root with max_depth = depth
PrintedRun ==
    (pc \in {"main", "done"} /\ result = "Ok") => TreeLines = PrintRun(args.depth).out

\* C11: within one top-level print each graph node is marked visited and
\* expanded at most once, a package whose node is missing or visited already
\* ends its branch without output, and with max_depth <= 2 no name is on
\* more than one line
C11_PrintVisitsOnce ==
    FetchSucceeded =>
        /\ PrintedRun
        /\ \A max_depth \in 0..(MaxDepth + 1) :
              /\ MarkedOnce(PrintRun(max_depth))
              /\ EndedBranchesSilent(PrintRun(max_depth), max_depth)
              /\ NamesOnceWhenShallow(PrintRun(max_depth), max_depth)

\* a finished run with depth 3 that wrote a name twice, on a graph whose
\* print with max_depth = 2 meets that name at two nodes and writes it once
C11_Witness ==
    /\ Done /\ result = "Ok" /\ args.depth = 3
    /\ ~NoRepeats(LineNames(TreeLines))
    /\ Len(PrintRun(2).out) < Len(PrintRun(2).marked)
    /\ Len(PrintRun(2).out) >= 2

(* ------------------------------------------------------------------ *)
(* C12                                                                  *)
(* ------------------------------------------------------------------ *)

\* the nodes made when a package was first fetched
HomeNodes == {home[n].node : n \in DOMAIN home}

\* edges start at the node made when a package was first fetched and end at
\* a node made later that is no such node
EdgeEnds ==
    \A e \in Range(graph.edges) :
        /\ e[1] \in HomeNodes
        /\ e[2] \notin HomeNodes
        /\ e[1] < e[2] /\ e[2] <= Len(graph.nodes)

EdgeTargetsAreSinks ==
    \A e \in Range(graph.edges) : Neighbors(graph, e[2]) = <<>>

\* the walk from a node visits that node first and then its successors only
WalkIsLocal ==
    \A n \in 1..Len(graph.nodes) :
        /\ DfsOrder(graph, n)[1] = n
        /\ Range(DfsOrder(graph, n)) = {n} \cup Range(Neighbors(graph, n))
        /\ NoRepeats(DfsOrder(graph, n))

\* C12: in every graph the fetch reaches the target of every edge has no
\* outgoing edge, so no path has more than one edge and the depth-first walk
\* from any node visits that node and its direct successors only
C12_EdgesEndAtSinks == EdgeEnds /\ EdgeTargetsAreSinks /\ WalkIsLocal

\* a parent's edge ends at the re-inserted node of a child whose first node
\* has edges of its own
C12_Witness ==
    /\ FetchSucceeded
    /\ \E e \in Range(graph.edges) : \E n \in DOMAIN home :
          /\ graph.nodes[e[2]] = graph.nodes[home[n].node]
          /\ e[2] # home[n].node
          /\ Neighbors(graph, home[n].node) # <<>>

====
